---- MODULE Spec2Model ----
(***************************************************************************)
(* Model of imgpack.py: the reader of Amlogic upgrade images               *)
(* (AmlResImg.from_img / AmlResItem.from_img) and the unpack / list loop   *)
(* of main().                                                              *)
(*                                                                         *)
(* Representation.                                                         *)
(*  - bytes objects are sequences of 0..255; Python's 0-based half-open    *)
(*    slice buf[a:b] is Slice(buf, a, b), which clamps to the buffer end   *)
(*    exactly as Python does.                                              *)
(*  - Python ints are unbounded.  The values int.from_bytes produces are   *)
(*    kept as canonical little-endian base-256 digit sequences (no high    *)
(*    zero digit), so two ints are equal iff their digit sequences are.    *)
(*    Where the code uses such an int as a slice bound or a range() limit  *)
(*    the model uses Capped(n) = min(n, Cap); Cap exceeds every buffer     *)
(*    length and loop count of the model, so min(n, len) and i < n are     *)
(*    computed exactly, without wraparound, as in Python.                  *)
(*  - str objects are sequences of Unicode code points.                    *)
(***************************************************************************)
EXTENDS Integers, Sequences, FiniteSets, TLC

VARIABLES
    img,        \* contents of the image file (args.img.read())
    args,       \* parsed command line: [has_unpack, unpack, dir]
    pc,         \* position in the program
    crc, version, magic,   \* locals of AmlResImg.from_img
    count,      \* range limit of the item loop, Capped(uint32(img, 0x18))
    i,          \* loop variable of AmlResImg.from_img
    items,      \* local list `items` of AmlResImg.from_img
    pack,       \* the AmlResImg returned to main, or NoValue
    err,        \* the exception that ended the program, or NoValue
    j,          \* position of main's loop over pack.items
    files,      \* open(..., 'wb') + write calls made so far: [path, data]
    skipped,    \* filenames printed as "Skipped"
    listing     \* lines printed by the listing branch

vars == <<img, args, pc, crc, version, magic, count, i, items, pack, err,
          j, files, skipped, listing>>

NoValue == "None"

----------------------------------------------------------------------------
(* Format constants of the code.                                           *)

HeaderSize  == 64      \* 0x40
RecordSize  == 576     \* 0x240
OffCrc      == 0       \* 0x00
OffVersion  == 4       \* 0x04
OffMagic    == 8       \* 0x08
EndMagic    == 16      \* 0x10
OffCount    == 24      \* 0x18
OffStart    == 16      \* 0x10
OffSize     == 24      \* 0x18
OffType     == 32      \* 0x20
OffName     == 288     \* 0x120
OffFlag     == 544     \* 0x220

(* Saturation point of Capped; larger than any length or index of the model.*)
Cap == 1048576

----------------------------------------------------------------------------
(* bytes and ints                                                          *)

Min(a, b) == IF a <= b THEN a ELSE b

Zeros(n) == [k \in 1..n |-> 0]

(* buf[a:b] for 0 <= a, 0 <= b: clamped to the end of buf, empty if a >= b. *)
Slice(buf, a, b) == SubSeq(buf, a + 1, Min(b, Len(buf)))

(* Length of s without its trailing zero elements: the position of the     *)
(* last nonzero element, 0 if there is none.                                *)
StripLen(s) ==
    CHOOSE k \in 0..Len(s) :
        /\ k = 0 \/ s[k] # 0
        /\ \A m \in (k + 1)..Len(s) : s[m] = 0

(* Variant of rstrip that removes one trailing null only (s[:-1] if the     *)
(* last byte is null).                                                      *)
rstrip_one(s) ==
    IF Len(s) > 0 /\ s[Len(s)] = 0 THEN SubSeq(s, 1, Len(s) - 1) ELSE s

(* bytes.rstrip(b'\0') *)
rstrip(s) == SubSeq(s, 1, StripLen(s))

(* int.from_bytes(b, 'little'): the number whose base-256 digits are b,     *)
(* least significant first; as a canonical digit sequence.                  *)
from_bytes(b) == SubSeq(b, 1, StripLen(b))

uint32(buf, offset) == from_bytes(Slice(buf, offset, offset + 4))

uint64(buf, offset) == from_bytes(Slice(buf, offset, offset + 8))

(* min(n, Cap) for an int n given by its digits, most significant first.    *)
RECURSIVE CappedFrom(_, _, _)
CappedFrom(n, k, acc) ==
    IF k = 0 THEN acc
    ELSE CappedFrom(n, k - 1, Min(acc * 256 + n[k], Cap))

Capped(n) == CappedFrom(n, Len(n), 0)

(* Variant of SliceInt that takes size as the end offset: img[start:size].  *)
SliceInt_end_is_size(buf, start, size) ==
    Slice(buf, Capped(start), Capped(size))

(* img[start:start + size] with start, size Python ints (digit sequences).  *)
(* The sum is taken on unbounded ints, so it never wraps.                   *)
SliceInt(buf, start, size) ==
    Slice(buf, Capped(start), Capped(start) + Capped(size))

(* Variant of BitAnd that tests equality instead: item[0x220] == 1.         *)
BitAnd_as_equal(a, b) == IF a = b THEN 1 ELSE 0

(* a & b on naturals *)
RECURSIVE BitAnd(_, _)
BitAnd(a, b) ==
    IF a = 0 \/ b = 0 THEN 0
    ELSE (a % 2) * (b % 2) + 2 * BitAnd(a \div 2, b \div 2)

----------------------------------------------------------------------------
(* bytes.decode(): strict UTF-8.  Utf8Decode(b) is [ok |-> TRUE, text |->   *)
(* code points] or [ok |-> FALSE, ...] (UnicodeDecodeError).                *)

IsCont(b, k) == k <= Len(b) /\ b[k] >= 128 /\ b[k] <= 191

InRange(b, k, lo, hi) == k <= Len(b) /\ b[k] >= lo /\ b[k] <= hi

(* Number of bytes of the well-formed sequence starting at b[k], 0 if none. *)
Utf8SeqLen(b, k) ==
    LET c == b[k] IN
    IF c <= 127 THEN 1
    ELSE IF c >= 194 /\ c <= 223 THEN (IF IsCont(b, k + 1) THEN 2 ELSE 0)
    ELSE IF c = 224 THEN
        (IF InRange(b, k + 1, 160, 191) /\ IsCont(b, k + 2) THEN 3 ELSE 0)
    ELSE IF c = 237 THEN
        (IF InRange(b, k + 1, 128, 159) /\ IsCont(b, k + 2) THEN 3 ELSE 0)
    ELSE IF c >= 225 /\ c <= 239 THEN
        (IF IsCont(b, k + 1) /\ IsCont(b, k + 2) THEN 3 ELSE 0)
    ELSE IF c = 240 THEN
        (IF InRange(b, k + 1, 144, 191) /\ IsCont(b, k + 2) /\ IsCont(b, k + 3)
         THEN 4 ELSE 0)
    ELSE IF c >= 241 /\ c <= 243 THEN
        (IF IsCont(b, k + 1) /\ IsCont(b, k + 2) /\ IsCont(b, k + 3)
         THEN 4 ELSE 0)
    ELSE IF c = 244 THEN
        (IF InRange(b, k + 1, 128, 143) /\ IsCont(b, k + 2) /\ IsCont(b, k + 3)
         THEN 4 ELSE 0)
    ELSE 0

(* Code point of the well-formed n-byte sequence at b[k]. *)
Utf8CodePoint(b, k, n) ==
    IF n = 1 THEN b[k]
    ELSE IF n = 2 THEN (b[k] - 192) * 64 + (b[k + 1] - 128)
    ELSE IF n = 3 THEN
        (b[k] - 224) * 4096 + (b[k + 1] - 128) * 64 + (b[k + 2] - 128)
    ELSE (b[k] - 240) * 262144 + (b[k + 1] - 128) * 4096
         + (b[k + 2] - 128) * 64 + (b[k + 3] - 128)

(* A byte that is not a continuation byte starts a sequence. *)
IsLead(b, k) == b[k] < 128 \/ b[k] > 191

(* b is well formed iff every lead byte starts a well-formed sequence and   *)
(* every continuation byte lies inside the sequence of a lead byte at most  *)
(* three places before it: exactly the strings a strict decoder, reading    *)
(* sequence after sequence from the left, accepts.                          *)
Utf8Valid(b) ==
    \A k \in 1..Len(b) :
        IF IsLead(b, k) THEN Utf8SeqLen(b, k) > 0
        ELSE \E p \in (k - 3)..(k - 1) :
                p >= 1 /\ IsLead(b, p) /\ p + Utf8SeqLen(b, p) > k

Utf8Decode(b) ==
    IF ~Utf8Valid(b) THEN [ok |-> FALSE, text |-> <<>>]
    ELSE LET leads == SelectSeq([k \in 1..Len(b) |-> k],
                                LAMBDA k : IsLead(b, k))
         IN  [ok |-> TRUE,
              text |-> [m \in 1..Len(leads) |->
                          Utf8CodePoint(b, leads[m],
                                        Utf8SeqLen(b, leads[m]))]]

----------------------------------------------------------------------------
(* class AmlResItem                                                        *)

(* AmlResItem.from_img(item, img): [ok |-> TRUE, item |-> the AmlResItem]   *)
(* or [ok |-> FALSE, kind, field] for the exception the body raises.  The   *)
(* statements run in source order: start, size, type_, name, to_flash, data.*)
AmlResItem_from_img(item, image) ==
    LET start == uint64(item, OffStart)
        size  == uint64(item, OffSize)
        type_ == Utf8Decode(rstrip(Slice(item, OffType, OffName)))
        name  == Utf8Decode(rstrip(Slice(item, OffName, OffFlag)))
    IN  IF ~type_.ok THEN
            [ok |-> FALSE, kind |-> "UnicodeDecodeError", field |-> "type"]
        ELSE IF ~name.ok THEN
            [ok |-> FALSE, kind |-> "UnicodeDecodeError", field |-> "name"]
        ELSE IF Len(item) <= OffFlag THEN
            [ok |-> FALSE, kind |-> "IndexError", field |-> "flag"]
        ELSE
            [ok |-> TRUE,
             item |-> [start    |-> start,
                       size     |-> size,
                       type     |-> type_.text,
                       name     |-> name.text,
                       to_flash |-> (BitAnd(item[OffFlag + 1], 1) = 1),
                       data     |-> SliceInt(image, start, size)]]

Dot   == 46     \* '.'
Slash == 47     \* '/'

(* AmlResItem.filename: f'{self.name}.{self.type}' *)
filename(item) == item.name \o <<Dot>> \o item.type

(* os.path.join(a, b) on a POSIX system, as called by main. *)
path_join(a, b) ==
    IF Len(b) > 0 /\ b[1] = Slash THEN b
    ELSE IF Len(a) = 0 \/ a[Len(a)] = Slash THEN a \o b
    ELSE a \o <<Slash>> \o b

(* Variant of RecordSlice with the stride taken from the flag offset:       *)
(* offset = 0x40 + 0x220 * i.                                               *)
RecordSlice_stride(image, k) ==
    Slice(image, HeaderSize + OffFlag * k,
                 HeaderSize + OffFlag * k + RecordSize)

(* The record slice AmlResImg.from_img hands to AmlResItem.from_img.        *)
RecordSlice(image, k) ==
    Slice(image, HeaderSize + RecordSize * k,
                 HeaderSize + RecordSize * k + RecordSize)

----------------------------------------------------------------------------
(* Input images.  Any byte string is a possible file; the model draws the   *)
(* file from the families below, built with the layout the reader decodes.  *)

MaxRecords == 2     \* records in a generated item table
MaxTail    == 3     \* payload bytes that follow the item table

LE(v, w) ==
    [k \in 1..w |-> IF k <= 3 THEN (v \div (256 ^ (k - 1))) % 256
                    ELSE IF k = 4 THEN v \div 16777216
                    ELSE 0]

Pad(s, n) == s \o Zeros(n - Len(s))

MkHeader(countBytes) ==
    <<239, 190, 173, 222>> \o <<3, 0, 0, 0>> \o Pad(<<65, 77, 76>>, 8)
    \o Zeros(OffCount - EndMagic) \o countBytes
    \o Zeros(HeaderSize - OffCount - 4)

MkRecord(r) ==
    Zeros(OffStart) \o r.start \o r.size
    \o Pad(r.type, OffName - OffType) \o Pad(r.name, OffFlag - OffName)
    \o <<r.flag>> \o Zeros(RecordSize - OffFlag - 1)

Payload == [k \in 1..MaxTail |-> 16 + k]

RECURSIVE Concat(_)
Concat(ss) == IF ss = <<>> THEN <<>> ELSE Head(ss) \o Concat(Tail(ss))

TableEnd(n) == HeaderSize + RecordSize * n

MaxU64 == [k \in 1..8 |-> 255]      \* 2^64 - 1

(* Records a table of n records is built from: payload ranges inside, at    *)
(* and past the end of the file, zero sizes, valid / invalid / empty /      *)
(* null-containing / unpadded text, several flag bytes.                     *)
RecChoices(n) ==
    LET e == TableEnd(n) IN
    { [start |-> LE(e, 8), size |-> LE(MaxTail, 8),
       type |-> <<98>>, name |-> <<97>>, flag |-> 1],
      [start |-> LE(e + 1, 8), size |-> LE(0, 8),
       type |-> <<98>>, name |-> <<99, 0, 100>>, flag |-> 2],
      [start |-> LE(e, 8), size |-> LE(MaxTail + 1, 8),
       type |-> <<195, 169>>, name |-> <<97>>, flag |-> 0],
      [start |-> MaxU64, size |-> LE(1, 8),
       type |-> <<98>>, name |-> <<97>>, flag |-> 3],
      [start |-> LE(e + MaxTail + 1, 8), size |-> LE(0, 8),
       type |-> <<98>>, name |-> <<100>>, flag |-> 1],
      [start |-> LE(e, 8), size |-> LE(1, 8),
       type |-> <<255>>, name |-> <<97>>, flag |-> 1],
      [start |-> LE(e, 8), size |-> LE(1, 8),
       type |-> <<98>>, name |-> <<97, 195>>, flag |-> 0],
      [start |-> LE(0, 8), size |-> LE(2, 8),
       type |-> <<>>, name |-> <<>>, flag |-> 255],
      [start |-> LE(e + 1, 8), size |-> LE(1, 8),
       type |-> <<98>>, name |-> <<Slash, 120>>, flag |-> 1],
      [start |-> LE(e + 1, 8), size |-> LE(2, 8),
       type |-> <<98>>, name |-> [k \in 1..(OffFlag - OffName) |-> 120],
       flag |-> 0] }

GoodRecord(n) ==
    [start |-> LE(TableEnd(n), 8), size |-> LE(MaxTail, 8),
     type |-> <<98>>, name |-> <<97>>, flag |-> 1]

MkImage(recs, countBytes) ==
    MkHeader(countBytes)
    \o Concat([k \in 1..Len(recs) |-> MkRecord(recs[k])])
    \o Payload

(* Every table of up to MaxRecords records, the count field matching.       *)
FamTable ==
    UNION { { MkImage(recs, LE(n, 4)) : recs \in [1..n -> RecChoices(n)] }
            : n \in 0..MaxRecords }

(* A well-formed table under every count field, matching or not.            *)
FamCount ==
    { MkImage([k \in 1..MaxRecords |-> GoodRecord(MaxRecords)], c)
      : c \in { LE(n, 4) : n \in 0..(MaxRecords + 1) }
              \cup { <<255, 255, 255, 255>>, <<0, 0, 0, 128>> } }

(* Every prefix of a well-formed image of one record.                       *)
FamCut ==
    LET full == MkImage(<<GoodRecord(1)>>, LE(1, 4))
    IN  { SubSeq(full, 1, l) : l \in 0..Len(full) }

(* One record under every value of the flag byte.                           *)
FamFlag ==
    { MkImage(<<[GoodRecord(1) EXCEPT !.flag = f]>>, LE(1, 4)) : f \in 0..255 }

Images == FamTable \cup FamCount \cup FamCut \cup FamFlag

(* Command lines.  unpack is the list of ITEMs given with -d; dir is the     *)
(* empty string when <DIR> is not given.                                    *)
ImgName == <<105>>                 \* "i"
OutDir  == <<111>>                 \* "o"
Suffix  == <<46, 85, 78, 80, 65, 67, 75>>      \* ".UNPACK"

(* has_unpack is `args.unpack is not None`. *)
ArgChoices ==
    { [has_unpack |-> FALSE, unpack |-> <<>>, dir |-> <<>>],
      [has_unpack |-> TRUE, unpack |-> <<>>, dir |-> OutDir],
      [has_unpack |-> TRUE, unpack |-> << <<97, Dot, 98>> >>, dir |-> <<>>],
      [has_unpack |-> TRUE, unpack |-> << <<97>> >>, dir |-> OutDir],
      [has_unpack |-> TRUE,
       unpack |-> << <<Slash, 120, Dot, 98>>, <<Dot>> >>, dir |-> OutDir] }

----------------------------------------------------------------------------
(* The program.                                                            *)

Init ==
    /\ img \in Images
    /\ args = NoValue
    /\ pc = "parse_args"
    /\ crc = NoValue /\ version = NoValue /\ magic = NoValue
    /\ count = 0 /\ i = 0
    /\ items = <<>>
    /\ pack = NoValue
    /\ err = NoValue
    /\ j = 0
    /\ files = <<>>
    /\ skipped = <<>>
    /\ listing = <<>>

(* main: args = parser.parse_args() *)
ParseArgs ==
    /\ pc = "parse_args"
    /\ \E a \in ArgChoices : args' = a
    /\ pc' = "from_img"
    /\ UNCHANGED <<img, crc, version, magic, count, i, items, pack, err,
                   j, files, skipped, listing>>

(* AmlResImg.from_img: the header reads and the evaluation of range(...).   *)
ReadHeader ==
    /\ pc = "from_img"
    /\ crc' = uint32(img, OffCrc)
    /\ version' = uint32(img, OffVersion)
    /\ magic' = Slice(img, OffMagic, EndMagic)
    /\ items' = <<>>
    /\ count' = Capped(uint32(img, OffCount))
    /\ i' = 0
    /\ pc' = "loop"
    /\ UNCHANGED <<img, args, pack, err, j, files, skipped, listing>>

(* One iteration of the item loop that appends an item.                     *)
DecodeItem ==
    /\ pc = "loop"
    /\ i < count
    /\ LET r == AmlResItem_from_img(RecordSlice(img, i), img) IN
        /\ r.ok
        /\ items' = Append(items, r.item)
    /\ i' = i + 1
    /\ UNCHANGED <<img, args, pc, crc, version, magic, count, pack, err,
                   j, files, skipped, listing>>

(* Variant of DecodeRaises that swallows the exception and goes on with the *)
(* next record (try: ... except: continue).                                 *)
DecodeSkips ==
    /\ pc = "loop"
    /\ i < count
    /\ ~AmlResItem_from_img(RecordSlice(img, i), img).ok
    /\ i' = i + 1
    /\ UNCHANGED <<img, args, pc, crc, version, magic, count, items, pack,
                   err, j, files, skipped, listing>>

(* One iteration in which AmlResItem.from_img raises: nothing catches the   *)
(* exception, the program ends with a traceback and no AmlResImg.           *)
DecodeRaises ==
    /\ pc = "loop"
    /\ i < count
    /\ LET r == AmlResItem_from_img(RecordSlice(img, i), img) IN
        /\ ~r.ok
        /\ err' = [kind |-> r.kind, field |-> r.field, index |-> i]
    /\ pc' = "raised"
    /\ UNCHANGED <<img, args, crc, version, magic, count, i, items, pack,
                   j, files, skipped, listing>>

(* return cls(crc, version, magic, items) *)
Return ==
    /\ pc = "loop"
    /\ i >= count
    /\ pack' = [crc |-> crc, version |-> version, magic |-> magic,
                items |-> items]
    /\ pc' = IF args.has_unpack THEN "unpack" ELSE "list"
    /\ j' = 0
    /\ UNCHANGED <<img, args, crc, version, magic, count, i, items, err,
                   files, skipped, listing>>

(* path = f'{args.img.name}.UNPACK' if not args.dir else args.dir *)
UnpackPath == IF args.dir = <<>> THEN ImgName \o Suffix ELSE args.dir

InList(x, l) == \E k \in 1..Len(l) : l[k] = x

(* if args.unpack and item.filename not in args.unpack *)
IsSkipped(item) ==
    args.unpack # <<>> /\ ~InList(filename(item), args.unpack)

UnpackSkip ==
    /\ pc = "unpack"
    /\ j < Len(pack.items)
    /\ IsSkipped(pack.items[j + 1])
    /\ skipped' = Append(skipped, filename(pack.items[j + 1]))
    /\ j' = j + 1
    /\ UNCHANGED <<img, args, pc, crc, version, magic, count, i, items, pack,
                   err, files, listing>>

UnpackWrite ==
    /\ pc = "unpack"
    /\ j < Len(pack.items)
    /\ ~IsSkipped(pack.items[j + 1])
    /\ files' = Append(files,
                       [path |-> path_join(UnpackPath,
                                           filename(pack.items[j + 1])),
                        data |-> pack.items[j + 1].data,
                        index |-> j])
    /\ j' = j + 1
    /\ UNCHANGED <<img, args, pc, crc, version, magic, count, i, items, pack,
                   err, skipped, listing>>

UnpackDone ==
    /\ pc = "unpack"
    /\ j >= Len(pack.items)
    /\ pc' = "done"
    /\ UNCHANGED <<img, args, crc, version, magic, count, i, items, pack,
                   err, j, files, skipped, listing>>

ListItem ==
    /\ pc = "list"
    /\ j < Len(pack.items)
    /\ listing' = Append(listing,
                         [filename |-> filename(pack.items[j + 1]),
                          start |-> pack.items[j + 1].start,
                          size  |-> pack.items[j + 1].size,
                          flash |-> pack.items[j + 1].to_flash])
    /\ j' = j + 1
    /\ UNCHANGED <<img, args, pc, crc, version, magic, count, i, items, pack,
                   err, files, skipped>>

ListDone ==
    /\ pc = "list"
    /\ j >= Len(pack.items)
    /\ pc' = "done"
    /\ UNCHANGED <<img, args, crc, version, magic, count, i, items, pack,
                   err, j, files, skipped, listing>>

Next ==
    \/ ParseArgs
    \/ ReadHeader
    \/ DecodeItem
    \/ DecodeRaises
    \/ Return
    \/ UnpackSkip
    \/ UnpackWrite
    \/ UnpackDone
    \/ ListItem
    \/ ListDone

Spec == Init /\ [][Next]_vars

TypeOK == pc \in {"parse_args", "from_img", "loop", "raised", "unpack",
                  "list", "done"}

----------------------------------------------------------------------------
(* Vocabulary of the properties: the file read directly, byte by byte,      *)
(* independently of the reader.                                             *)

ParseEnded == pc \in {"raised", "unpack", "list", "done"}

(* AmlResImg.from_img returned an image to main. *)
Returned == pc \in {"unpack", "list", "done"}

Digit(b, m) == IF m <= Len(b) THEN b[m] ELSE 0

(* The little-endian field b is below 2^24 / its value when it is. *)
IsSmall(b) == \A m \in 4..Len(b) : b[m] = 0

SmallValue(b) == Digit(b, 1) + 256 * Digit(b, 2) + 65536 * Digit(b, 3)

(* Bytes [lo, hi) of the file, as far as present. *)
Bytes(lo, hi) ==
    [m \in 1..(Min(hi, Len(img)) - Min(lo, Len(img))) |-> img[lo + m]]

(* Bytes [lo, hi) of record k (0-based) of the item table. *)
Field(k, lo, hi) ==
    Bytes(HeaderSize + RecordSize * k + lo, HeaderSize + RecordSize * k + hi)

StartField(k) == Field(k, OffStart, OffStart + 8)
SizeField(k)  == Field(k, OffSize, OffSize + 8)
TypeField(k)  == Field(k, OffType, OffName)
NameField(k)  == Field(k, OffName, OffFlag)

CountField == Bytes(OffCount, OffCount + 4)

(* Number of item records the header declares, when below 2^24; else 2^24.  *)
ItemCount == IF IsSmall(CountField) THEN SmallValue(CountField) ELSE 16777216

(* start + size of record k exceeds the file length (no wraparound).        *)
OutOfRange(k) ==
    \/ ~IsSmall(StartField(k))
    \/ ~IsSmall(SizeField(k))
    \/ SmallValue(StartField(k)) + SmallValue(SizeField(k)) > Len(img)

(* Record k lies wholly inside the file. *)
FullRecord(k) == HeaderSize + RecordSize * (k + 1) <= Len(img)

(* len(file) >= 0x40 + item_count * 0x240 *)
TableFits ==
    /\ Len(img) >= HeaderSize
    /\ ItemCount <= (Len(img) - HeaderSize) \div RecordSize

(* Records that exist wholly or partly in the file and are declared.        *)
Declared ==
    { k \in 0..(Len(img) \div RecordSize) : k < ItemCount }

(* The int n (canonical digits) is the value of the w-byte field b.         *)
IntIsField(n, b) ==
    /\ Len(n) <= Len(b)
    /\ \A m \in 1..Len(b) : Digit(n, m) = b[m]
    /\ (n = <<>> \/ n[Len(n)] # 0)

----------------------------------------------------------------------------
(* C1: whenever from_img returns an image, every item has                   *)
(* start + size <= len(file) and a payload of exactly size bytes, i.e. the  *)
(* payload is file[start : start + size] and was not clamped to the end.    *)
C1_PayloadInsideBuffer ==
    Returned =>
        \A k \in 1..Len(pack.items) :
            /\ ~OutOfRange(k - 1)
            /\ Len(pack.items[k].data) = SmallValue(SizeField(k - 1))

(* C2: if some declared record has start + size > len(file), parsing fails  *)
(* (an error for that record, no image).                                    *)
C2_OutOfRangeRejected ==
    ParseEnded =>
        \A k \in Declared :
            OutOfRange(k) => pc = "raised" /\ err.index <= k

(* C3: a file of at least 0x40 bytes that is shorter than                   *)
(* 0x40 + item_count * 0x240 is rejected, and no item is ever decoded from  *)
(* a record slice shorter than 0x240 bytes.                                 *)
C3_TruncatedTableRejected ==
    /\ (ParseEnded /\ Len(img) >= HeaderSize /\ ~TableFits) => pc = "raised"
    /\ \A k \in 1..Len(items) : FullRecord(k - 1)

(* C4: a file shorter than 0x40 bytes is rejected; no image is returned.    *)
C4_TruncatedHeaderRejected ==
    (ParseEnded /\ Len(img) < HeaderSize) => pc = "raised"

(* C5: for a valid file (table inside the file, every declared record's     *)
(* start + size <= len(file), text valid) every item's start and size are   *)
(* the record's u64 LE fields and its payload is file[start : start + size] *)
(* byte for byte; size 0 gives the empty payload.                           *)
C5_PayloadFidelity ==
    (Returned /\ TableFits /\ \A k \in Declared : ~OutOfRange(k)) =>
        \A k \in 1..Len(pack.items) :
            LET it == pack.items[k]
                st == SmallValue(StartField(k - 1))
                sz == SmallValue(SizeField(k - 1))
            IN  /\ IntIsField(it.start, StartField(k - 1))
                /\ IntIsField(it.size, SizeField(k - 1))
                /\ Len(it.data) = sz
                /\ \A m \in 1..sz : it.data[m] = img[st + m]

C5_Witness ==
    /\ Returned /\ TableFits /\ \A k \in Declared : ~OutOfRange(k)
    /\ \E k \in 1..Len(pack.items) :
           pack.items[k].size = <<>> /\ pack.items[k].data = <<>>
    /\ \E k \in 1..Len(pack.items) : Len(pack.items[k].data) = MaxTail

FlagByte(k) == Digit(Field(k, OffFlag, OffFlag + 1), 1)

OddBytes == { 2 * m + 1 : m \in 0..127 }

(* C6: a returned image has item_count items, the k-th decoded from the     *)
(* record at 0x40 + 0x240 * k; with item_count = 0 every file is accepted   *)
(* with an empty item list.                                                 *)
C6_ItemCountAndOrder ==
    /\ Returned =>
        /\ Len(pack.items) = ItemCount
        /\ \A k \in 1..Len(pack.items) :
            /\ IntIsField(pack.items[k].start, StartField(k - 1))
            /\ IntIsField(pack.items[k].size, SizeField(k - 1))
            /\ pack.items[k].to_flash <=> FlagByte(k - 1) \in OddBytes
    /\ (ParseEnded /\ ItemCount = 0) => (Returned /\ pack.items = <<>>)

C6_Witness ==
    /\ Returned
    /\ Len(pack.items) = MaxRecords
    /\ pack.items[1].start # pack.items[MaxRecords].start
    /\ pack.items[1].to_flash # pack.items[MaxRecords].to_flash

(* The type or name field of record k, trailing nulls removed, is not text. *)
BadText(k) ==
    \/ ~Utf8Valid(rstrip(TypeField(k)))
    \/ ~Utf8Valid(rstrip(NameField(k)))

FirstBad ==
    CHOOSE k \in Declared :
        BadText(k) /\ \A m \in Declared : m < k => ~BadText(m)

(* C7 as stated: invalid text in any declared record k makes parsing fail   *)
(* with a text error for that index k, whatever the other records hold.     *)
C7_ErrorForEveryBadIndex ==
    ParseEnded =>
        \A k \in Declared :
            BadText(k) =>
                /\ pc = "raised"
                /\ err.kind = "UnicodeDecodeError"
                /\ err.index = k

(* C7 amended: invalid text in any declared record makes parsing fail with  *)
(* a text error raised at the first such record; no image is returned, the  *)
(* bad record is not skipped and no later record is decoded.                *)
C7_AllOrNothing ==
    ParseEnded =>
        \A k \in Declared :
            BadText(k) =>
                /\ pc = "raised"
                /\ err.kind = "UnicodeDecodeError"
                /\ err.index = FirstBad
                /\ err.field = (IF Utf8Valid(rstrip(TypeField(FirstBad)))
                                THEN "name" ELSE "type")
                /\ Len(items) = FirstBad
                /\ files = <<>> /\ listing = <<>>

C7_Witness ==
    /\ pc = "raised"
    /\ err.kind = "UnicodeDecodeError"
    /\ err.index = 1
    /\ Len(items) = 1
    /\ BadText(1) /\ ~BadText(0)

(* C8: to_flash is true iff bit 0 of the flag byte is 1, for every value of *)
(* the byte; the flag byte is never a reason to reject a record.            *)
C8_ToFlashBit0 ==
    /\ \A k \in 1..Len(items) :
           items[k].to_flash <=> FlagByte(k - 1) \in OddBytes
    /\ (pc = "raised" /\ err.field = "flag") =>
           Field(err.index, OffFlag, OffFlag + 1) = <<>>

C8_Witness ==
    /\ Returned
    /\ \E k \in 1..Len(pack.items) :
           FlagByte(k - 1) = 2 /\ ~pack.items[k].to_flash
    /\ \E k \in 1..Len(pack.items) :
           FlagByte(k - 1) = 3 /\ pack.items[k].to_flash

(* The text fields of the record the item loop is about to decode. *)
TextFields ==
    IF pc = "loop" /\ i < count /\ FullRecord(i)
    THEN {TypeField(i), NameField(i)}
    ELSE {}

IsAscii(b) == \A m \in 1..Len(b) : b[m] < 128

(* t is f without its trailing nulls, everything before them kept. *)
IsTrimOf(t, f) ==
    /\ Len(t) <= Len(f)
    /\ \A m \in 1..Len(t) : t[m] = f[m]
    /\ \A m \in (Len(t) + 1)..Len(f) : f[m] = 0
    /\ (t = <<>> \/ t[Len(t)] # 0)

(* C9: decoding a fixed text field removes all trailing nulls and only      *)
(* those: the result never ends in a null, the bytes before the last        *)
(* non-null byte are kept in order (interior nulls too), an all-null field  *)
(* gives the empty text, and trimming twice equals trimming once.           *)
C9_TrailingNullTrim ==
    /\ \A f \in TextFields :
        /\ IsTrimOf(rstrip(f), f)
        /\ ((\A m \in 1..Len(f) : f[m] = 0) => rstrip(f) = <<>>)
        /\ rstrip(rstrip(f)) = rstrip(f)
    /\ \A k \in 1..Len(items) :
        /\ IsAscii(TypeField(k - 1)) => IsTrimOf(items[k].type, TypeField(k - 1))
        /\ IsAscii(NameField(k - 1)) => IsTrimOf(items[k].name, NameField(k - 1))

C9_Witness ==
    /\ Returned
    /\ \E k \in 1..Len(pack.items) :
           /\ pack.items[k].name = <<99, 0, 100>>
           /\ NameField(k - 1)[4] = 0 /\ NameField(k - 1)[OffFlag - OffName] = 0
    /\ \E k \in 1..Len(pack.items) :
           pack.items[k].name = <<>> /\ pack.items[k].type = <<>>

(* C10: in unpack mode an item's payload is written, verbatim and to the    *)
(* path dir/filename with filename = name + '.' + type, iff the selection   *)
(* is empty or contains that filename; every other item is skipped.         *)
C10_UnpackSelection ==
    (pc = "done" /\ args.has_unpack) =>
        \A k \in 1..Len(pack.items) :
            LET fn  == pack.items[k].name \o <<Dot>> \o pack.items[k].type
                sel == args.unpack = <<>>
                       \/ \E n \in 1..Len(args.unpack) : args.unpack[n] = fn
                wr  == { w \in 1..Len(files) : files[w].index = k - 1 }
            IN  /\ sel <=> wr # {}
                /\ ~sel <=> (\E n \in 1..Len(skipped) : skipped[n] = fn)
                /\ \A w \in wr :
                    /\ files[w].path = UnpackPath \o <<Slash>> \o fn
                    /\ files[w].data = pack.items[k].data

(* The selection rule of C10 alone, with the path as os.path.join gives it. *)
UnpackSelectionRule ==
    (pc = "done" /\ args.has_unpack) =>
        \A k \in 1..Len(pack.items) :
            LET fn  == pack.items[k].name \o <<Dot>> \o pack.items[k].type
                sel == args.unpack = <<>>
                       \/ \E n \in 1..Len(args.unpack) : args.unpack[n] = fn
                wr  == { w \in 1..Len(files) : files[w].index = k - 1 }
            IN  /\ sel <=> wr # {}
                /\ ~sel <=> (\E n \in 1..Len(skipped) : skipped[n] = fn)
                /\ \A w \in wr :
                    /\ files[w].path = path_join(UnpackPath, fn)
                    /\ files[w].data = pack.items[k].data

====
